---- MODULE Spec2Model ----
(***************************************************************************)
(* A model of pylint_etc_wrapper.py: the three checker adapters            *)
(* (PylintRunner, Pep8Runner, PyflakesRunner), their output matchers,      *)
(* field derivation and output handling, LintRunner.run and main.          *)
(*                                                                         *)
(* Text is modelled character by character: a Python string is the         *)
(* sequence of its one-character strings, so that matching, splitting,     *)
(* joining and formatting are computed as the code computes them.          *)
(***************************************************************************)
EXTENDS Naturals, Sequences, FiniteSets, TLC

(***************************************************************************)
(* Bounds of the model.                                                    *)
(***************************************************************************)
\* process_line calls made on one adapter in LineSpec
MaxCalls == 2

\* length of the ignore_codes list given to an adapter in IgnoreSpec
MaxIgnore == 2

\* lines the external tool writes in one run (RunSpec)
MaxWrites == 3

\* unread lines a pipe holds before a write to it blocks (RunSpec)
PipeCap == 1

\* lines an external tool writes in one run under main (Spec)
MaxToolLines == 1

(***************************************************************************)
(* Characters and string helpers.                                          *)
(***************************************************************************)
Digit == {"0", "1", "2", "3", "4", "5", "6", "7", "8", "9"}

Upper == {"A", "B", "C", "D", "E", "F", "G", "H", "I", "J", "K", "L", "M",
          "N", "O", "P", "Q", "R", "S", "T", "U", "V", "W", "X", "Y", "Z"}

Lower == {"a", "b", "c", "d", "e", "f", "g", "h", "i", "j", "k", "l", "m",
          "n", "o", "p", "q", "r", "s", "t", "u", "v", "w", "x", "y", "z"}

\* \w of the re module
WordChar == Digit \cup Upper \cup Lower \cup {"_"}

\* \s of the re module
Space == {" ", "\t", "\n", "\r", "\f"}

Take(s, n) == SubSeq(s, 1, n)

Drop(s, n) == SubSeq(s, n + 1, Len(s))

\* str.find, 1-based; 0 when c does not occur
IndexOf(s, c) ==
    IF \E i \in 1..Len(s) : s[i] = c
    THEN CHOOSE i \in 1..Len(s) : s[i] = c /\ \A j \in 1..(i - 1) : s[j] # c
    ELSE 0

\* length of the longest prefix of s made of characters of set (a greedy X*)
SpanLen(s, set) ==
    IF \A i \in 1..Len(s) : s[i] \in set
    THEN Len(s)
    ELSE (CHOOSE i \in 1..Len(s) : s[i] \notin set /\ \A j \in 1..(i - 1) : s[j] \in set) - 1

\* sub in s
Contains(s, sub) ==
    \E i \in 0..(Len(s) - Len(sub)) : SubSeq(s, i + 1, i + Len(sub)) = sub

\* s.startswith(prefix)
StartsWith(s, prefix) ==
    Len(s) >= Len(prefix) /\ Take(s, Len(prefix)) = prefix

\* dict.update: upd laid over base
Overlay(base, upd) ==
    [k \in (DOMAIN base) \cup (DOMAIN upd) |->
        IF k \in DOMAIN upd THEN upd[k] ELSE base[k]]

(***************************************************************************)
(* The adapters: command, output format, output matcher.                   *)
(***************************************************************************)
Classes == {"PylintRunner", "Pep8Runner", "PyflakesRunner"}

command(cls) ==
    CASE cls = "PylintRunner" -> <<"p","y","l","i","n","t">>
      [] cls = "Pep8Runner" -> <<"p","e","p","8",".","p","y">>
      [] cls = "PyflakesRunner" -> <<"p","y","f","l","a","k","e","s">>

Fields == {"level", "error_type", "error_number", "description",
           "filename", "line_number"}

\* "%(level)s %(error_type)s%(error_number)s:%(description)s at %(filename)s line %(line_number)s."
flymake_output_format(d) ==
    d.level \o <<" ">> \o d.error_type \o d.error_number \o <<":">>
    \o d.description \o <<" ","a","t"," ">> \o d.filename \o <<" ","l","i","n","e"," ">>
    \o d.line_number \o <<".">>

\* "%(filename)s:%(line_number)s: %(level)s: %(error_type)s%(error_number)s %(description)s."
comint_output_format(d) ==
    d.filename \o <<":">> \o d.line_number \o <<":"," ">> \o d.level \o <<":"," ">>
    \o d.error_type \o d.error_number \o <<" ">> \o d.description \o <<".">>

\* output_format % fixed_data
Render(fmt, d) ==
    IF fmt = "comint" THEN comint_output_format(d) ELSE flymake_output_format(d)

NoMatch == [ok |-> FALSE, groups |-> << >>]

\* X$ where X is .+ (least = 1) or .* (least = 0): '.' matches no newline, and
\* '$' matches at the end of the string or before a newline that ends it
DotsToEnd(r, least) ==
    LET body == IF Len(r) > 0 /\ r[Len(r)] = "\n" THEN Take(r, Len(r) - 1) ELSE r
    IN  [ok |-> Len(body) >= least /\ \A i \in 1..Len(body) : body[i] # "\n",
         text |-> body]

\* (?P<filename>[^:]+):(?P<line_number>\d+):\s*\[(?P<error_type>[WECR])
\* (?P<error_number>[0-9]+)\]\s*(?P<description>.*)$
PylintMatcher(line) ==
    LET c1 == IndexOf(line, ":")
        r1 == Drop(line, c1)
        nd == SpanLen(r1, Digit)
        r2 == Drop(r1, nd)
        r3 == Drop(r2, 1)
        r4 == Drop(r3, SpanLen(r3, Space))
        r5 == Drop(r4, 2)
        nn == SpanLen(r5, Digit)
        r6 == Drop(r5, nn)
        r7 == Drop(r6, 1)
        d  == DotsToEnd(Drop(r7, SpanLen(r7, Space)), 0)
    IN  IF /\ c1 >= 2
           /\ nd >= 1
           /\ Len(r2) >= 1 /\ r2[1] = ":"
           /\ Len(r4) >= 2 /\ r4[1] = "[" /\ r4[2] \in {"W", "E", "C", "R"}
           /\ nn >= 1
           /\ Len(r6) >= 1 /\ r6[1] = "]"
           /\ d.ok
        THEN [ok |-> TRUE,
              groups |-> [filename |-> Take(line, c1 - 1),
                          line_number |-> Take(r1, nd),
                          error_type |-> << r4[2] >>,
                          error_number |-> Take(r5, nn),
                          description |-> d.text]]
        ELSE NoMatch

\* (?P<filename>[^:]+):(?P<line_number>[^:]+):[^:]+: (?P<error_number>\w+) (?P<description>.+)$
Pep8Matcher(line) ==
    LET c1 == IndexOf(line, ":")
        r1 == Drop(line, c1)
        c2 == IndexOf(r1, ":")
        r2 == Drop(r1, c2)
        c3 == IndexOf(r2, ":")
        r3 == Drop(r2, c3)
        r4 == Drop(r3, 1)
        nw == SpanLen(r4, WordChar)
        r5 == Drop(r4, nw)
        d  == DotsToEnd(Drop(r5, 1), 1)
    IN  IF /\ c1 >= 2
           /\ c2 >= 2
           /\ c3 >= 2
           /\ Len(r3) >= 1 /\ r3[1] = " "
           /\ nw >= 1
           /\ Len(r5) >= 1 /\ r5[1] = " "
           /\ d.ok
        THEN [ok |-> TRUE,
              groups |-> [filename |-> Take(line, c1 - 1),
                          line_number |-> Take(r1, c2 - 1),
                          error_number |-> Take(r4, nw),
                          description |-> d.text]]
        ELSE NoMatch

\* (?P<filename>[^:]+):(?P<line_number>[^:]+)\s*:(?P<description>.+)$
PyflakesMatcher(line) ==
    LET c1 == IndexOf(line, ":")
        r1 == Drop(line, c1)
        c2 == IndexOf(r1, ":")
        d  == DotsToEnd(Drop(r1, c2), 1)
    IN  IF c1 >= 2 /\ c2 >= 2 /\ d.ok
        THEN [ok |-> TRUE,
              groups |-> [filename |-> Take(line, c1 - 1),
                          line_number |-> Take(r1, c2 - 1),
                          description |-> d.text]]
        ELSE NoMatch

\* self.output_matcher.match(line); groups is m.groupdict()
output_matcher(cls, line) ==
    CASE cls = "PylintRunner" -> PylintMatcher(line)
      [] cls = "Pep8Runner" -> Pep8Matcher(line)
      [] cls = "PyflakesRunner" -> PyflakesMatcher(line)

\* the named groups of each adapter's pattern
GroupNames(cls) ==
    CASE cls = "PylintRunner" ->
            {"filename", "line_number", "error_type", "error_number", "description"}
      [] cls = "Pep8Runner" ->
            {"filename", "line_number", "error_number", "description"}
      [] cls = "PyflakesRunner" ->
            {"filename", "line_number", "description"}

(***************************************************************************)
(* Field derivation.  A result is [raised, data]: raised when the Python   *)
(* code would raise (an index or key error) instead of returning.          *)
(***************************************************************************)
\* data.get('error_number', '?')
ErrorNumberOr(data) ==
    IF "error_number" \in DOMAIN data THEN data.error_number ELSE <<"?">>

\* A variant that puts the command before the code: "<command> <error_number>"
BaseFixupDataCommandFirst(cls, data) ==
    IF command(cls) # << >>
    THEN Overlay(data, [error_number |-> command(cls) \o <<" ">> \o ErrorNumberOr(data)])
    ELSE data

\* LintRunner.fixup_data
BaseFixupData(cls, data) ==
    IF command(cls) # << >>
    THEN Overlay(data, [error_number |-> ErrorNumberOr(data) \o <<" ">> \o command(cls)])
    ELSE data

PylintFixupData(cls, data0) ==
    LET data == BaseFixupData(cls, data0)
    IN  IF "error_type" \notin DOMAIN data
        THEN [raised |-> TRUE, data |-> data]
        ELSE [raised |-> FALSE,
              data |-> Overlay(data,
                  [level |-> IF StartsWith(data.error_type, <<"E">>)
                             THEN <<"E","R","R","O","R">> ELSE <<"W","A","R","N","I","N","G">>])]

Pep8FixupData(cls, data0) ==
    LET data == BaseFixupData(cls, data0)
        en   == data.error_number
    IN  IF "error_number" \notin DOMAIN data
        THEN [raised |-> TRUE, data |-> data]
        ELSE IF \E i \in 1..Len(en) : en[i] = "W"
        THEN [raised |-> FALSE, data |-> Overlay(data, [level |-> <<"W","A","R","N","I","N","G">>])]
        ELSE IF Len(en) < 2
        THEN [raised |-> TRUE, data |-> data]
        ELSE [raised |-> FALSE,
              data |-> Overlay(data,
                  [level |-> IF en[2] \in {"2", "3", "4", "5"}
                             THEN <<"W","A","R","N","I","N","G">> ELSE <<"E","R","R","O","R">>])]

PyflakesFixupData(cls, data0) ==
    LET data == BaseFixupData(cls, data0)
    IN  [raised |-> FALSE, data |-> Overlay(data, [level |-> <<"E","R","R","O","R">>])]

fixup_data(cls, data) ==
    CASE cls = "PylintRunner" -> PylintFixupData(cls, data)
      [] cls = "Pep8Runner" -> Pep8FixupData(cls, data)
      [] cls = "PyflakesRunner" -> PyflakesFixupData(cls, data)

\* PyflakesRunner.ignore_redefinition_warnings
ignore_redefinition_warnings == TRUE

\* A variant that drops only the "redefinition of unused" diagnostics
handle_output_unused_only(self, fixed_data) ==
    IF /\ self.cls = "PyflakesRunner"
       /\ ignore_redefinition_warnings
       /\ Contains(fixed_data.description, <<"r","e","d","e","f","i","n","i","t","i","o","n"," ","o","f"," ","u","n","u","s","e","d">>)
    THEN << >>
    ELSE << Render(self.output_format, fixed_data) >>

\* _handle_output: the lines printed for a record (none or one)
handle_output(self, fixed_data) ==
    IF /\ self.cls = "PyflakesRunner"
       /\ ignore_redefinition_warnings
       /\ \/ Contains(fixed_data.description, <<"r","e","d","e","f","i","n","i","t","i","o","n"," ","o","f"," ","u","n","u","s","e","d">>)
          \/ Contains(fixed_data.description, <<"r","e","d","e","f","i","n","i","t","i","o","n"," ","o","f"," ","f","u","n","c","t","i","o","n">>)
    THEN << >>
    ELSE << Render(self.output_format, fixed_data) >>

\* A variant that fills the fields with a placeholder token
EmptyRecordPlaceholder == [f \in Fields |-> <<"?">>]

\* dict.fromkeys(('level', ..., 'line_number'), '')
EmptyRecord == [f \in Fields |-> << >>]

NoRecord == << "none" >>

\* A variant without the "if m:" guard: m.groupdict() on no match raises
process_line_unguarded(self, line) ==
    LET m == output_matcher(self.cls, line)
        fx == fixup_data(self.cls, m.groups)
        fixed_data == Overlay(EmptyRecord, fx.data)
    IN  IF ~m.ok \/ fx.raised
        THEN [raised |-> TRUE, handed |-> NoRecord, printed |-> << >>]
        ELSE [raised |-> FALSE, handed |-> fixed_data,
              printed |-> handle_output(self, fixed_data)]

\* process_line: what it hands to _handle_output and what that prints
process_line(self, line) ==
    LET m == output_matcher(self.cls, line)
        fx == fixup_data(self.cls, m.groups)
        fixed_data == Overlay(EmptyRecord, fx.data)
    IN  IF ~m.ok
        THEN [raised |-> FALSE, handed |-> NoRecord, printed |-> << >>]
        ELSE IF fx.raised
        THEN [raised |-> TRUE, handed |-> NoRecord, printed |-> << >>]
        ELSE [raised |-> FALSE, handed |-> fixed_data,
              printed |-> handle_output(self, fixed_data)]

(***************************************************************************)
(* Construction of an adapter.                                             *)
(***************************************************************************)
None == "None"

Range(s) == {s[i] : i \in DOMAIN s}

\* LintRunner.__init__: output_format None (or empty) keeps the class's
\* flymake_output_format
LintRunnerInit(cls, ignore_codes, use_sane_defaults, output_format, debug_flag) ==
    [cls |-> cls,
     ignore_codes |-> Range(ignore_codes),
     use_sane_defaults |-> use_sane_defaults,
     output_format |-> IF output_format # None THEN output_format ELSE "flymake",
     debug |-> debug_flag]

NoRunner == [cls |-> None]

NoResult == [property |-> None, value |-> << >>]

\* the class attribute sane_default_ignore_codes as the source sets it
SaneDefaults(cls) ==
    CASE cls = "PylintRunner" ->
            {<<"C","0","1","0","3">>, <<"W","0","1","0","8">>, <<"C","0","1","1","1">>, <<"W","0","1","4","2">>, <<"C","0","2","0","2">>, <<"C","0","3","0","1">>,
             <<"C","0","3","2","2">>, <<"C","0","3","2","3">>, <<"E","1","0","0","2">>, <<"W","0","1","4","1">>, <<"W","0","2","3","2">>, <<"W","0","6","2","1">>,
             <<"W","0","7","0","2">>, <<"R","0","9","0","4">>, <<"R","0","9","0","2">>, <<"R","0","9","0","3">>, <<"R","0","2","0","1">>, <<"R","0","9","1","3">>,
             <<"R","0","9","2","1">>, <<"E","1","1","0","1">>, <<"E","1","1","0","2">>, <<"E","1","1","0","3">>, <<"E","0","6","1","1">>}
      [] cls = "Pep8Runner" ->
            {<<"E","2","3","1">>, <<"E","3","0","1">>, <<"E","3","0","2">>, <<"E","5","0","1">>, <<"E","7","0","1">>, <<"E","1","1","3">>}
      [] cls = "PyflakesRunner" -> {}

\* str.split(","): the segments between the commas, at least one
RECURSIVE Split(_)
Split(s) ==
    LET i == IndexOf(s, ",")
    IN  IF i = 0 THEN << s >> ELSE << Take(s, i - 1) >> \o Split(Drop(s, i))

\* sep.join(items)
RECURSIVE Join(_, _)
Join(items, sep) ==
    IF Len(items) = 0 THEN << >>
    ELSE IF Len(items) = 1 THEN items[1]
    ELSE items[1] \o sep \o Join(Tail(items), sep)

\* the sequences over S of length at most n
RECURSIVE SeqsUpTo(_, _)
SeqsUpTo(S, n) ==
    IF n = 0 THEN {<< >>}
    ELSE LET shorter == SeqsUpTo(S, n - 1)
         IN  shorter \cup {Append(q, x) : q \in shorter, x \in S}

\* iteration over a Python set: each element once, in an order the code
\* does not fix (here: the order in which CHOOSE picks them)
RECURSIVE SetOrder(_)
SetOrder(S) ==
    IF S = {} THEN << >>
    ELSE LET x == CHOOSE x \in S : TRUE IN << x >> \o SetOrder(S \ {x})

(***************************************************************************)
(* Output lines of the external tools used as inputs.                      *)
(***************************************************************************)
PylintLines ==
    {<<"f","o","o",".","p","y",":","1","2",":"," ","[","W","0","6","1","1","]"," ","u","n","u","s","e","d"," ","i","m","p","o","r","t"," ","o","s","\n">>,
     <<"f","o","o",".","p","y",":","3",":"," ","[","E","0","6","0","2","]"," ","U","n","d","e","f","i","n","e","d"," ","v","a","r","i","a","b","l","e"," ","'","x","'","\n">>,
     <<"f","o","o",".","p","y",":","1",":"," ","[","C","0","1","0","3","]","\n">>,
     <<"f","o","o",".","p","y",":","1","2",":","[","R","0","2","0","1","]","M","e","t","h","o","d"," ","c","o","u","l","d"," ","b","e"," ","a"," ","f","u","n","c","t","i","o","n">>,
     <<"f","o","o",".","p","y",":","1","2",":"," ","[","W","0","6","1","1",","," ","f","]"," ","u","n","u","s","e","d"," ","i","m","p","o","r","t"," ","o","s","\n">>,
     <<"*","*","*","*","*","*","*","*","*","*","*","*","*"," ","M","o","d","u","l","e"," ","f","o","o","\n">>}

\* codes of one or two characters over a small alphabet, and some real ones
Pep8Codes ==
    LET A == {"W", "E", "1", "3"}
    IN  {<< a >> : a \in A} \cup {<< a, b >> : a \in A, b \in A}
        \cup {<<"E","2","3","1">>, <<"E","1","0","1">>, <<"W","2","9","1">>, <<"E","5","0","1">>, <<"w","6">>}

Pep8Lines ==
    {<<"f",".","p","y",":","3",":","1",":"," ">> \o c \o <<" ","b","a","d"," ","s","p","a","c","i","n","g","\n">> : c \in Pep8Codes}
    \cup {<<"f",".","p","y",":","3",":","1",":","E","2","3","1"," ","b","a","d"," ","s","p","a","c","i","n","g","\n">>, <<"f",".","p","y",":","3",":","1",":"," ","E","2","3","1","\n">>}

PyflakesLines ==
    {<<"f",".","p","y",":","7",":"," ","u","n","d","e","f","i","n","e","d"," ","n","a","m","e"," ","'","x","'","\n">>,
     <<"f",".","p","y",":","7",":"," ","r","e","d","e","f","i","n","i","t","i","o","n"," ","o","f"," ","u","n","u","s","e","d"," ","'","x","'"," ","f","r","o","m"," ","l","i","n","e"," ","3","\n">>,
     <<"f",".","p","y",":","9",":"," ","r","e","d","e","f","i","n","i","t","i","o","n"," ","o","f"," ","f","u","n","c","t","i","o","n"," ","'","f","'"," ","f","r","o","m"," ","l","i","n","e"," ","2","\n">>,
     <<"f",".","p","y",":","4",":"," ","r","e","d","e","f","i","n","i","t","i","o","n"," ","o","f"," ","u","n","u","s","e","d"," ","'","y","'">>,
     <<"f",".","p","y",":","9",":"," ","r","e","d","e","f","i","n","i","t","i","o","n"," ","o","f"," ","x","\n">>,
     <<"f",".","p","y",":","7",":","\n">>}

OtherLines == {<<"\n">>, << >>, <<":",":","\n">>, <<"a",":","b",":","c","\n">>, <<"S","u","m","m","a","r","y",":"," ","3"," ","e","r","r","o","r","s","\n">>}

Lines == PylintLines \cup Pep8Lines \cup PyflakesLines \cup OtherLines

(***************************************************************************)
(* State.                                                                  *)
(***************************************************************************)
VARIABLES
    pc,           \* position of main, or of the caller of the adapter
    runner,       \* the adapter instance in use
    stdout,       \* what this program has printed: [kind, text] per print
    processed,    \* the calls of process_line so far: [stream, line]
    handed,       \* the record last handed to _handle_output
    raised,       \* whether a call has raised
    sane_default_ignore_codes,  \* the class attribute, per class
    ignore_codes, \* the ignore_codes list given to the adapters' constructor
    result,       \* the value last read from a property of the adapter
    options,      \* the parsed command-line options of main
    filenames,    \* the file names given to main, or to run
    selected_checkers,  \* the classes main has still to run
    spawned,      \* the argument vector of every Popen call so far
    proc,         \* the external process of the current run and its two pipes
    written       \* the lines that process has written: [stream, line]

vars == << pc, runner, stdout, processed, handed, raised,
          sane_default_ignore_codes, ignore_codes, result,
          options, filenames, selected_checkers, spawned, proc, written >>

\* the variables of main and of the external process, unused when an
\* adapter is called directly
mainVars == << options, filenames, selected_checkers, spawned, proc, written >>

NoOptions == [checker_progs |-> << >>, ignore_codes |-> << >>,
              comint_format |-> FALSE, debug |-> FALSE]

NoWrite == [stream |-> None, line |-> << >>]

NoProc == [state |-> None, pending |-> NoWrite, out |-> << >>, err |-> << >>,
           nwrites |-> 0]

NoMain ==
    /\ options = NoOptions
    /\ filenames = << >>
    /\ selected_checkers = << >>
    /\ spawned = << >>
    /\ proc = NoProc
    /\ written = << >>

\* A variant that adds the defaults whatever use_sane_defaults says
operative_ignore_codes_always(self) ==
    self.ignore_codes \cup sane_default_ignore_codes[self.cls]

\* the property operative_ignore_codes
operative_ignore_codes(self) ==
    IF self.use_sane_defaults
    THEN self.ignore_codes \cup sane_default_ignore_codes[self.cls]
    ELSE self.ignore_codes

\* A variant that passes only the caller's codes to the tool
run_flags_caller_codes(self) ==
    CASE self.cls = "PylintRunner" ->
            << <<"-","-","o","u","t","p","u","t","-","f","o","r","m","a","t">>, <<"p","a","r","s","e","a","b","l","e">>, <<"-","-","i","n","c","l","u","d","e","-","i","d","s">>, <<"y">>,
               <<"-","-","r","e","p","o","r","t","s">>, <<"n">>,
               <<"-","-","d","i","s","a","b","l","e","=">> \o Join(SetOrder(self.ignore_codes), <<",">>) >>
      [] self.cls = "Pep8Runner" ->
            << <<"-","-","r","e","p","e","a","t">>, <<"-","-","f","i","l","e","n","a","m","e","=","*","p","y">>,
               <<"-","-","i","g","n","o","r","e","=">> \o Join(SetOrder(self.ignore_codes), <<",">>) >>
      [] self.cls = "PyflakesRunner" -> << >>

\* the property run_flags (LintRunner's, which PyflakesRunner inherits, is ())
run_flags(self) ==
    CASE self.cls = "PylintRunner" ->
            << <<"-","-","o","u","t","p","u","t","-","f","o","r","m","a","t">>, <<"p","a","r","s","e","a","b","l","e">>, <<"-","-","i","n","c","l","u","d","e","-","i","d","s">>, <<"y">>,
               <<"-","-","r","e","p","o","r","t","s">>, <<"n">>,
               <<"-","-","d","i","s","a","b","l","e","=">> \o Join(SetOrder(operative_ignore_codes(self)), <<",">>) >>
      [] self.cls = "Pep8Runner" ->
            << <<"-","-","r","e","p","e","a","t">>, <<"-","-","f","i","l","e","n","a","m","e","=","*","p","y">>,
               <<"-","-","i","g","n","o","r","e","=">> \o Join(SetOrder(operative_ignore_codes(self)), <<",">>) >>
      [] self.cls = "PyflakesRunner" -> << >>

Diag(texts) == [i \in DOMAIN texts |-> [kind |-> "diag", text |-> texts[i]]]

(***************************************************************************)
(* LineSpec: process_line called directly on an adapter.                   *)
(***************************************************************************)
LineInit ==
    /\ pc = "api"
    /\ \E cls \in Classes, fmt \in {None, "flymake", "comint"} :
          runner = LintRunnerInit(cls, << >>, TRUE, fmt, FALSE)
    /\ stdout = << >>
    /\ processed = << >>
    /\ handed = NoRecord
    /\ raised = FALSE
    /\ sane_default_ignore_codes = [c \in Classes |-> SaneDefaults(c)]
    /\ ignore_codes = << >>
    /\ result = NoResult
    /\ NoMain

CallProcessLine(line) ==
    /\ pc = "api"
    /\ ~raised
    /\ Len(processed) < MaxCalls
    /\ LET r == process_line(runner, line)
       IN  /\ stdout' = stdout \o Diag(r.printed)
           /\ handed' = r.handed
           /\ raised' = r.raised
    /\ processed' = Append(processed, [stream |-> "direct", line |-> line])
    /\ UNCHANGED << pc, runner, sane_default_ignore_codes, ignore_codes, result >>
    /\ UNCHANGED mainVars

LineNext == \E line \in Lines : CallProcessLine(line)

LineSpec == LineInit /\ [][LineNext]_vars

(***************************************************************************)
(* IgnoreSpec: an adapter built with any ignore list and either value of   *)
(* use_sane_defaults, and its properties read.                             *)
(***************************************************************************)
SampleCodes == {<<"W","0","6","1","1">>, <<"E","2","0","2">>, <<"C","0","1","0","3">>, <<"E","2","3","1">>}

IgnoreInit ==
    /\ pc = "api"
    /\ ignore_codes \in SeqsUpTo(SampleCodes, MaxIgnore)
    /\ \E cls \in Classes, usd \in BOOLEAN :
          runner = LintRunnerInit(cls, ignore_codes, usd, None, FALSE)
    /\ stdout = << >>
    /\ processed = << >>
    /\ handed = NoRecord
    /\ raised = FALSE
    /\ sane_default_ignore_codes = [c \in Classes |-> SaneDefaults(c)]
    /\ result = NoResult
    /\ NoMain

ReadOperativeIgnoreCodes ==
    /\ pc = "api"
    /\ result' = [property |-> "operative_ignore_codes",
                  value |-> operative_ignore_codes(runner)]
    /\ UNCHANGED << pc, runner, stdout, processed, handed, raised,
                    sane_default_ignore_codes, ignore_codes >>
    /\ UNCHANGED mainVars

ReadRunFlags ==
    /\ pc = "api"
    /\ result' = [property |-> "run_flags", value |-> run_flags(runner)]
    /\ UNCHANGED << pc, runner, stdout, processed, handed, raised,
                    sane_default_ignore_codes, ignore_codes >>
    /\ UNCHANGED mainVars

IgnoreNext == ReadOperativeIgnoreCodes \/ ReadRunFlags

IgnoreSpec == IgnoreInit /\ [][IgnoreNext]_vars

(***************************************************************************)
(* LintRunner.run, step by step (RunSpec): the external tool and run()     *)
(* are two processes joined by the stdout and stderr pipes.  The tool      *)
(* writes whole lines; a write to a pipe that holds PipeCap unread lines   *)
(* blocks until run() has read one.  (Python's file iterator reads ahead,  *)
(* which delays lines but does not reorder them.)                          *)
(***************************************************************************)
\* A variant that puts the file names before the flags
RunArgsFilesFirst(self, files) == << command(self.cls) >> \o files \o run_flags(self)

\* args = [self.command]; args.extend(self.run_flags); args.extend(filenames)
RunArgs(self, files) == << command(self.cls) >> \o run_flags(self) \o files

Debug(texts) == [i \in DOMAIN texts |-> [kind |-> "debug", text |-> texts[i]]]

\* print "DEBUG: command = ", ' '.join(args)
DebugCommand(self, args) ==
    IF self.debug
    THEN Debug(<< <<"D","E","B","U","G",":"," ","c","o","m","m","a","n","d"," ","="," ">> \o <<" ">> \o Join(args, <<" ">>) >>)
    ELSE << >>

\* print self.command, 'STDOUT:', line
DebugEcho(self, stream, line) ==
    IF self.debug
    THEN Debug(<< command(self.cls) \o <<" ">>
                  \o (IF stream = "stdout" THEN <<"S","T","D","O","U","T",":">> ELSE <<"S","T","D","E","R","R",":">>)
                  \o <<" ">> \o line >>)
    ELSE << >>

\* sample output of each tool: a diagnostic and a line that is none
ToolLines(cls) ==
    CASE cls = "PylintRunner" ->
            {<<"f","o","o",".","p","y",":","1","2",":"," ","[","W","0","6","1","1","]"," ","u","n","u","s","e","d"," ","i","m","p","o","r","t"," ","o","s","\n">>, <<"*","*","*","*","*","*","*","*","*","*","*","*","*"," ","M","o","d","u","l","e"," ","f","o","o","\n">>}
      [] cls = "Pep8Runner" ->
            {<<"f",".","p","y",":","3",":","1",":"," ","E","2","3","1"," ","b","a","d"," ","s","p","a","c","i","n","g","\n">>, <<"\n">>}
      [] cls = "PyflakesRunner" ->
            {<<"f",".","p","y",":","7",":"," ","u","n","d","e","f","i","n","e","d"," ","n","a","m","e"," ","'","x","'","\n">>,
             <<"f",".","p","y",":","7",":"," ","r","e","d","e","f","i","n","i","t","i","o","n"," ","o","f"," ","u","n","u","s","e","d"," ","'","x","'"," ","f","r","o","m"," ","l","i","n","e"," ","3","\n">>}

FileLists == {<< >>, << <<"f","o","o",".","p","y">> >>, << <<"f","o","o",".","p","y">>, <<"p","k","g">> >>}

RunInit ==
    /\ pc = "run_called"
    /\ \E cls \in Classes, fmt \in {"flymake", "comint"}, dbg \in BOOLEAN :
          runner = LintRunnerInit(cls, << >>, TRUE, fmt, dbg)
    /\ filenames \in FileLists
    /\ stdout = << >>
    /\ processed = << >>
    /\ handed = NoRecord
    /\ raised = FALSE
    /\ sane_default_ignore_codes = [c \in Classes |-> SaneDefaults(c)]
    /\ ignore_codes = << >>
    /\ result = NoResult
    /\ options = NoOptions
    /\ selected_checkers = << >>
    /\ spawned = << >>
    /\ proc = NoProc
    /\ written = << >>

(* When each step is possible. *)
CanSpawn == pc = "run_called"

CanToolDecide ==
    proc.state = "running" /\ proc.pending = NoWrite /\ proc.nwrites < MaxWrites

CanToolWrite ==
    /\ proc.state = "running"
    /\ proc.pending # NoWrite
    /\ \/ proc.pending.stream = "stdout" /\ Len(proc.out) < PipeCap
       \/ proc.pending.stream = "stderr" /\ Len(proc.err) < PipeCap

CanToolExit == proc.state = "running" /\ proc.pending = NoWrite

CanReadStdout == pc = "for_stdout" /\ proc.out # << >>

CanStdoutEOF == pc = "for_stdout" /\ proc.out = << >> /\ proc.state = "exited"

CanReadStderr == pc = "for_stderr" /\ proc.err # << >>

CanStderrEOF == pc = "for_stderr" /\ proc.err = << >> /\ proc.state = "exited"

\* the tool or run can take a step
RunCanStep ==
    \/ CanSpawn
    \/ CanToolDecide
    \/ CanToolWrite
    \/ CanToolExit
    \/ CanReadStdout
    \/ CanStdoutEOF
    \/ CanReadStderr
    \/ CanStderrEOF

\* lines 141-146: build the arguments, print them under debug, spawn
RunSpawn ==
    /\ CanSpawn
    /\ LET args == RunArgs(runner, filenames)
       IN  /\ stdout' = stdout \o DebugCommand(runner, args)
           /\ spawned' = Append(spawned, args)
    /\ proc' = [state |-> "running", pending |-> NoWrite, out |-> << >>,
                err |-> << >>, nwrites |-> 0]
    /\ pc' = "for_stdout"
    /\ UNCHANGED << runner, processed, handed, raised, sane_default_ignore_codes,
                    ignore_codes, result, options, filenames, selected_checkers,
                    written >>

\* Popen raises (the command is not installed): run does not return
RunSpawnFails ==
    /\ CanSpawn
    /\ stdout' = stdout \o DebugCommand(runner, RunArgs(runner, filenames))
    /\ pc' = "oserror"
    /\ UNCHANGED << runner, processed, handed, raised, sane_default_ignore_codes,
                    ignore_codes, result, options, filenames, selected_checkers,
                    spawned, proc, written >>

\* the tool reaches a write of one line to one of its streams
ToolDecide(stream, line) ==
    /\ CanToolDecide
    /\ proc' = [proc EXCEPT !.pending = [stream |-> stream, line |-> line]]
    /\ UNCHANGED << pc, runner, stdout, processed, handed, raised,
                    sane_default_ignore_codes, ignore_codes, result, options,
                    filenames, selected_checkers, spawned, written >>

\* the write completes once the pipe has room
ToolWrite ==
    /\ CanToolWrite
    /\ \/ /\ proc.pending.stream = "stdout"
          /\ Len(proc.out) < PipeCap
          /\ proc' = [proc EXCEPT !.out = Append(@, proc.pending.line),
                                  !.pending = NoWrite, !.nwrites = @ + 1]
       \/ /\ proc.pending.stream = "stderr"
          /\ Len(proc.err) < PipeCap
          /\ proc' = [proc EXCEPT !.err = Append(@, proc.pending.line),
                                  !.pending = NoWrite, !.nwrites = @ + 1]
    /\ written' = Append(written, proc.pending)
    /\ UNCHANGED << pc, runner, stdout, processed, handed, raised,
                    sane_default_ignore_codes, ignore_codes, result, options,
                    filenames, selected_checkers, spawned >>

\* the tool exits, which closes its ends of both pipes
ToolExit ==
    /\ CanToolExit
    /\ proc' = [proc EXCEPT !.state = "exited"]
    /\ UNCHANGED << pc, runner, stdout, processed, handed, raised,
                    sane_default_ignore_codes, ignore_codes, result, options,
                    filenames, selected_checkers, spawned, written >>

\* the body of either for loop: the debug echo, then process_line
LoopBody(stream, line) ==
    LET r == process_line(runner, line)
    IN  /\ stdout' = stdout \o DebugEcho(runner, stream, line) \o Diag(r.printed)
        /\ handed' = r.handed
        /\ raised' = r.raised
        /\ processed' = Append(processed, [stream |-> stream, line |-> line])
        /\ pc' = IF r.raised THEN "raised" ELSE pc

\* lines 147-150: for line in process.stdout
ReadStdout ==
    /\ CanReadStdout
    /\ LoopBody("stdout", Head(proc.out))
    /\ proc' = [proc EXCEPT !.out = Tail(@)]
    /\ UNCHANGED << runner, sane_default_ignore_codes, ignore_codes, result,
                    options, filenames, selected_checkers, spawned, written >>

\* process.stdout is at end of file: empty, and closed by the tool
StdoutEOF ==
    /\ CanStdoutEOF
    /\ pc' = "for_stderr"
    /\ UNCHANGED << runner, stdout, processed, handed, raised,
                    sane_default_ignore_codes, ignore_codes, result, options,
                    filenames, selected_checkers, spawned, proc, written >>

\* A variant that reads standard error whenever it has a line
ReadStderrAnyTime ==
    /\ pc \in {"for_stdout", "for_stderr"}
    /\ proc.err # << >>
    /\ LoopBody("stderr", Head(proc.err))
    /\ proc' = [proc EXCEPT !.err = Tail(@)]
    /\ UNCHANGED << runner, sane_default_ignore_codes, ignore_codes, result,
                    options, filenames, selected_checkers, spawned, written >>

\* lines 151-156: for line in process.stderr
ReadStderr ==
    /\ CanReadStderr
    /\ LoopBody("stderr", Head(proc.err))
    /\ proc' = [proc EXCEPT !.err = Tail(@)]
    /\ UNCHANGED << runner, sane_default_ignore_codes, ignore_codes, result,
                    options, filenames, selected_checkers, spawned, written >>

\* process.stderr is at end of file: run returns
StderrEOF ==
    /\ CanStderrEOF
    /\ pc' = "run_returned"
    /\ UNCHANGED << runner, stdout, processed, handed, raised,
                    sane_default_ignore_codes, ignore_codes, result, options,
                    filenames, selected_checkers, spawned, proc, written >>

Tool ==
    \/ \E stream \in {"stdout", "stderr"}, line \in ToolLines(runner.cls) :
          ToolDecide(stream, line)
    \/ ToolWrite
    \/ ToolExit

RunNext ==
    \/ RunSpawn
    \/ RunSpawnFails
    \/ Tool
    \/ ReadStdout
    \/ StdoutEOF
    \/ ReadStderr
    \/ StderrEOF

RunSpec == RunInit /\ [][RunNext]_vars

(***************************************************************************)
(* main (Spec).  A call of run is one step here: the process is spawned    *)
(* and both loops run to the end, or the call does not return.             *)
(***************************************************************************)
\* what the two loops of run print for the lines they process, in order
RECURSIVE Drain(_, _)
Drain(self, log) ==
    IF log = << >> THEN << >>
    ELSE LET e == log[Len(log)]
         IN  Drain(self, SubSeq(log, 1, Len(log) - 1))
             \o DebugEcho(self, e.stream, e.line)
             \o Diag(process_line(self, e.line).printed)

\* the lines of standard output, then those of standard error
RunLog(outs, errs) ==
    [i \in DOMAIN outs |-> [stream |-> "stdout", line |-> outs[i]]]
    \o [i \in DOMAIN errs |-> [stream |-> "stderr", line |-> errs[i]]]

\* the registry
checkers ==
    (<<"p","y","l","i","n","t">> :> "PylintRunner")
    @@ (<<"p","e","p","8">> :> "Pep8Runner")
    @@ (<<"p","y","f","l","a","k","e","s">> :> "PyflakesRunner")

\* str.strip()
Strip(s) ==
    LET t == Drop(s, SpanLen(s, Space))
        keep == IF \A i \in 1..Len(t) : t[i] \in Space
                THEN 0
                ELSE CHOOSE i \in 1..Len(t) :
                        t[i] \notin Space /\ \A j \in (i + 1)..Len(t) : t[j] \in Space
    IN  Take(t, keep)

\* A variant that leaves out the names the registry does not know
LookupKnownOnly(names) ==
    LET known == SelectSeq(names, LAMBDA c : c \in DOMAIN checkers)
    IN  [ok |-> TRUE, classes |-> [i \in DOMAIN known |-> checkers[known[i]]]]

\* [checkers[c] for c in names]: fails on the first name not in the registry
Lookup(names) ==
    IF \A i \in DOMAIN names : names[i] \in DOMAIN checkers
    THEN [ok |-> TRUE, classes |-> [i \in DOMAIN names |-> checkers[names[i]]]]
    ELSE [ok |-> FALSE, classes |-> << >>]

\* lines 309-311
SelectedCheckers(opts) == Lookup(Split(Strip(opts.checker_progs)))

\* values of -p: the lists of one or two names, known or not, the empty
\* string, and lists with white space
ProgNames == {<<"p","y","l","i","n","t">>, <<"p","e","p","8">>, <<"p","y","f","l","a","k","e","s">>, <<"b","o","g","u","s">>}

ProgLists ==
    {<< a >> : a \in ProgNames} \cup {<< a, b >> : a \in ProgNames, b \in ProgNames}

CheckerProgsValues ==
    {Join(l, <<",">>) : l \in ProgLists}
    \cup {<< >>, <<" ","p","e","p","8","\n">>, <<"p","y","l","i","n","t",","," ","p","e","p","8">>, <<"p","y","f","l","a","k","e","s",",">>}

\* values of -i
IgnoreLists == {<< >>, << <<"E","5","0","1">>, <<"W","0","6","1","1">> >>, << <<"E","2","0","2">>, << >> >>}

Init ==
    /\ pc = "main"
    /\ options \in [checker_progs : CheckerProgsValues,
                    ignore_codes : {Join(l, <<",">>) : l \in IgnoreLists},
                    comint_format : BOOLEAN,
                    debug : BOOLEAN]
    /\ filenames \in FileLists
    /\ runner = NoRunner
    /\ stdout = << >>
    /\ processed = << >>
    /\ handed = NoRecord
    /\ raised = FALSE
    /\ sane_default_ignore_codes = [c \in Classes |-> SaneDefaults(c)]
    /\ ignore_codes = << >>
    /\ result = NoResult
    /\ selected_checkers = << >>
    /\ spawned = << >>
    /\ proc = NoProc
    /\ written = << >>

\* lines 309-311: a name that is not in the registry ends main
LookupFails ==
    /\ pc = "main"
    /\ ~SelectedCheckers(options).ok
    /\ pc' = "keyerror"
    /\ UNCHANGED << runner, stdout, processed, handed, raised,
                    sane_default_ignore_codes, ignore_codes, result, options,
                    filenames, selected_checkers, spawned, proc, written >>

\* lines 309-316: the classes, the output format and the ignore list
Select ==
    /\ pc = "main"
    /\ SelectedCheckers(options).ok
    /\ selected_checkers' = SelectedCheckers(options).classes
    /\ ignore_codes' = IF options.ignore_codes # << >>
                       THEN Split(options.ignore_codes) ELSE << >>
    /\ pc' = "loop"
    /\ UNCHANGED << runner, stdout, processed, handed, raised,
                    sane_default_ignore_codes, result, options, filenames,
                    spawned, proc, written >>

\* lines 319-322
NewRunner(cls) ==
    LintRunnerInit(cls, ignore_codes, TRUE,
                   IF options.comint_format THEN "comint" ELSE "flymake",
                   options.debug)

\* the record last handed to _handle_output once log is processed
HandedAfter(self, log) ==
    IF log = << >> THEN handed ELSE process_line(self, log[Len(log)].line).handed

\* lines 318-323, one turn of the loop; run returns
RunChecker ==
    /\ pc = "loop"
    /\ selected_checkers # << >>
    /\ LET self == NewRunner(Head(selected_checkers))
           args == RunArgs(self, filenames)
       IN  /\ runner' = self
           /\ spawned' = Append(spawned, args)
           /\ \E outs \in SeqsUpTo(ToolLines(self.cls), MaxToolLines),
                 errs \in SeqsUpTo(ToolLines(self.cls), MaxToolLines) :
                 /\ Len(outs) + Len(errs) <= MaxToolLines
                 /\ stdout' = stdout \o DebugCommand(self, args)
                                     \o Drain(self, RunLog(outs, errs))
                 /\ processed' = processed \o RunLog(outs, errs)
                 /\ written' = written \o RunLog(outs, errs)
                 /\ handed' = HandedAfter(self, RunLog(outs, errs))
    /\ selected_checkers' = Tail(selected_checkers)
    /\ UNCHANGED << pc, raised, sane_default_ignore_codes, ignore_codes, result,
                    options, filenames, proc >>

\* one turn of the loop; Popen raises
RunCheckerSpawnFails ==
    /\ pc = "loop"
    /\ selected_checkers # << >>
    /\ LET self == NewRunner(Head(selected_checkers))
       IN  /\ runner' = self
           /\ stdout' = stdout \o DebugCommand(self, RunArgs(self, filenames))
    /\ pc' = "oserror"
    /\ UNCHANGED << processed, handed, raised, sane_default_ignore_codes,
                    ignore_codes, result, options, filenames, selected_checkers,
                    spawned, proc, written >>

\* one turn of the loop; run does not return: it waits for the end of
\* standard output, which a tool that hangs or is blocked never closes
RunCheckerBlocks ==
    /\ pc = "loop"
    /\ selected_checkers # << >>
    /\ LET self == NewRunner(Head(selected_checkers))
           args == RunArgs(self, filenames)
       IN  /\ runner' = self
           /\ spawned' = Append(spawned, args)
           /\ \E outs \in SeqsUpTo(ToolLines(self.cls), MaxToolLines) :
                 /\ stdout' = stdout \o DebugCommand(self, args)
                                     \o Drain(self, RunLog(outs, << >>))
                 /\ processed' = processed \o RunLog(outs, << >>)
                 /\ written' = written \o RunLog(outs, << >>)
                 /\ handed' = HandedAfter(self, RunLog(outs, << >>))
    /\ pc' = "blocked"
    /\ UNCHANGED << raised, sane_default_ignore_codes, ignore_codes, result,
                    options, filenames, selected_checkers, proc >>

\* the loop is over: main returns
MainReturns ==
    /\ pc = "loop"
    /\ selected_checkers = << >>
    /\ pc' = "done"
    /\ UNCHANGED << runner, stdout, processed, handed, raised,
                    sane_default_ignore_codes, ignore_codes, result, options,
                    filenames, selected_checkers, spawned, proc, written >>

Next ==
    \/ LookupFails
    \/ Select
    \/ RunChecker
    \/ RunCheckerSpawnFails
    \/ RunCheckerBlocks
    \/ MainReturns

Spec == Init /\ [][Next]_vars

(***************************************************************************)
(* Properties of process_line (LineSpec).                                  *)
(***************************************************************************)
\* the last line given to process_line, and its match
LastLine == processed[Len(processed)].line

LastMatch == output_matcher(runner.cls, LastLine)

Matching == {i \in DOMAIN processed : output_matcher(runner.cls, processed[i].line).ok}

\* C4, as stated: on a matching line every record field that the adapter's
\* pattern has no named group for, other than level, is the empty string.
C4_MissingFieldsEmpty ==
    (pc = "api" /\ handed # NoRecord) =>
        \A f \in Fields \ (GroupNames(runner.cls) \cup {"level"}) :
            handed[f] = << >>

\* C4, amended: on a matching line every record field that the adapter's
\* pattern has no named group for is the empty string, except level (set by
\* the severity rule) and error_number, which is "? <command>".
C4_MissingFields ==
    (pc = "api" /\ handed # NoRecord) =>
        /\ DOMAIN handed = Fields
        /\ \A f \in Fields \ (GroupNames(runner.cls) \cup {"level"}) :
              handed[f] = IF f = "error_number"
                          THEN <<"?"," ">> \o command(runner.cls)
                          ELSE << >>

C4_Witness ==
    /\ pc = "api"
    /\ handed # NoRecord
    /\ runner.cls = "PyflakesRunner"
    /\ handed.error_type = << >>
    /\ handed.error_number = <<"?"," ","p","y","f","l","a","k","e","s">>

\* C5: a call of process_line never raises and prints at most one
\* diagnostic, and none for a line that does not match the adapter's
\* pattern; so the diagnostics printed never outnumber the matching lines.
C5_AtMostOnePerMatchingLine ==
    /\ [](pc = "api" => (~raised /\ Len(stdout) <= Cardinality(Matching)))
    /\ [][(pc = "api" /\ processed' # processed) =>
            /\ ~raised'
            /\ Len(stdout') <= Len(stdout) + 1
            /\ SubSeq(stdout', 1, Len(stdout)) = stdout
            /\ (~output_matcher(runner.cls, processed'[Len(processed')].line).ok
                    => stdout' = stdout)]_vars

C5_Witness ==
    /\ pc = "api"
    /\ Len(processed) = 2
    /\ Cardinality(Matching) = 1
    /\ Len(stdout) = 1
    /\ ~raised

\* C6: the pyflakes adapter prints a matching line if and only if its
\* description contains neither "redefinition of unused" nor "redefinition
\* of function", and what it prints is the record rendered with level ERROR.
C6_PyflakesRedefinitionFilter ==
    [][(pc = "api" /\ runner.cls = "PyflakesRunner" /\ processed' # processed) =>
        LET m == PyflakesMatcher(processed'[Len(processed')].line)
        IN  m.ok =>
              /\ (stdout' # stdout) <=>
                    /\ ~Contains(m.groups.description, <<"r","e","d","e","f","i","n","i","t","i","o","n"," ","o","f"," ","u","n","u","s","e","d">>)
                    /\ ~Contains(m.groups.description, <<"r","e","d","e","f","i","n","i","t","i","o","n"," ","o","f"," ","f","u","n","c","t","i","o","n">>)
              /\ (stdout' # stdout) =>
                    /\ handed'.level = <<"E","R","R","O","R">>
                    /\ stdout' = Append(stdout,
                          [kind |-> "diag", text |-> Render(runner.output_format, handed')])
                    /\ StartsWith(Render("flymake", handed'), <<"E","R","R","O","R"," ">>)]_vars

C6_Witness ==
    /\ pc = "api"
    /\ runner.cls = "PyflakesRunner"
    /\ Len(processed) = 2
    /\ Matching = {1, 2}
    /\ Contains(processed[1].line, <<"r","e","d","e","f","i","n","i","t","i","o","n"," ","o","f"," ","f","u","n","c","t","i","o","n">>)
    /\ ~Contains(processed[2].line, <<"r","e","d","e","f","i","n","i","t","i","o","n"," ","o","f">>)
    /\ Len(stdout) = 1
    /\ handed.level = <<"E","R","R","O","R">>

\* C7: for the pep8 adapter the level of a matching line is WARNING exactly
\* when the code captured from the line contains 'W' or its second
\* character is one of 2, 3, 4, 5, and ERROR otherwise (a captured code of
\* one character has no second character).
C7_Pep8Level ==
    (pc = "api" /\ runner.cls = "Pep8Runner" /\ Len(processed) > 0 /\ LastMatch.ok) =>
        LET code == LastMatch.groups.error_number
        IN  /\ handed # NoRecord
            /\ handed.level =
                  IF \/ \E i \in 1..Len(code) : code[i] = "W"
                     \/ (Len(code) >= 2 /\ code[2] \in {"2", "3", "4", "5"})
                  THEN <<"W","A","R","N","I","N","G">> ELSE <<"E","R","R","O","R">>

C7_Witness ==
    /\ pc = "api"
    /\ runner.cls = "Pep8Runner"
    /\ Len(processed) = 2
    /\ Matching = {1, 2}
    /\ processed[1].line = <<"f",".","p","y",":","3",":","1",":"," ","E","3"," ","b","a","d"," ","s","p","a","c","i","n","g","\n">>
    /\ Len(LastMatch.groups.error_number) = 1
    /\ handed.level = <<"E","R","R","O","R">>
    /\ stdout[1].text = <<"W","A","R","N","I","N","G"," ","E","3"," ","p","e","p","8",".","p","y",":","b","a","d"," ","s","p","a","c","i","n","g"," ","a","t"," ","f",".","p","y"," ","l","i","n","e"," ","3",".">>

(***************************************************************************)
(* Properties of operative_ignore_codes (IgnoreSpec).                      *)
(***************************************************************************)
\* C8: operative_ignore_codes is the union of the caller's codes and the
\* adapter's built-in set when use_sane_defaults is true and exactly the
\* caller's codes when it is false, and reading it changes neither the
\* adapter's ignore_codes nor the class-level default set.
C8_OperativeIgnoreCodes ==
    /\ [](pc = "api" =>
            /\ runner.ignore_codes = Range(ignore_codes)
            /\ sane_default_ignore_codes = [c \in Classes |-> SaneDefaults(c)]
            /\ (result.property = "operative_ignore_codes") =>
                  result.value =
                      IF runner.use_sane_defaults
                      THEN Range(ignore_codes) \cup SaneDefaults(runner.cls)
                      ELSE Range(ignore_codes))
    /\ [][/\ runner' = runner
          /\ sane_default_ignore_codes' = sane_default_ignore_codes]_vars

C8_Witness ==
    /\ pc = "api"
    /\ runner.cls = "Pep8Runner"
    /\ ~runner.use_sane_defaults
    /\ Len(ignore_codes) = 2
    /\ result.property = "operative_ignore_codes"
    /\ result.value = {<<"W","0","6","1","1">>, <<"E","2","3","1">>}

(***************************************************************************)
(* Properties of run (RunSpec, LiveRunSpec).                               *)
(***************************************************************************)
LinesOf(log, stream) ==
    LET sel == SelectSeq(log, LAMBDA e : e.stream = stream)
    IN  [i \in DOMAIN sel |-> sel[i].line]

IsPrefix(p, q) == Len(p) <= Len(q) /\ SubSeq(q, 1, Len(p)) = p

C10_RunNeverStuck ==
    pc \in {"for_stdout", "for_stderr"} => RunCanStep

(***************************************************************************)
(* Properties of main (Spec).                                              *)
(***************************************************************************)
\* the list of names that the value of -p is the comma-joined form of
GivenProgs(l) == l \in ProgLists /\ options.checker_progs = Join(l, <<",">>)

\* the list of codes that the value of -i is the comma-joined form of
GivenCodes(l) == l \in IgnoreLists /\ options.ignore_codes = Join(l, <<",">>)

KnownProgs == {<<"p","y","l","i","n","t">>, <<"p","e","p","8">>, <<"p","y","f","l","a","k","e","s">>}

ClassOf(name) ==
    CASE name = <<"p","y","l","i","n","t">> -> "PylintRunner"
      [] name = <<"p","e","p","8">> -> "Pep8Runner"
      [] name = <<"p","y","f","l","a","k","e","s">> -> "PyflakesRunner"

EndsWith(s, suffix) ==
    Len(s) >= Len(suffix) /\ Drop(s, Len(s) - Len(suffix)) = suffix

\* C2: for a list of known names given to -p, main spawns one process per
\* name, in the order of the list: the i-th argument vector begins with the
\* i-th adapter's command and ends with the file names in their order, no
\* other process is ever spawned, and when main returns every name has had
\* its process.
C2_OneProcessPerSelectedName ==
    \A l \in ProgLists :
        (GivenProgs(l) /\ \A i \in DOMAIN l : l[i] \in KnownProgs) =>
            /\ Len(spawned) <= Len(l)
            /\ \A i \in DOMAIN spawned :
                  /\ spawned[i][1] = command(ClassOf(l[i]))
                  /\ EndsWith(Tail(spawned[i]), filenames)
            /\ pc = "done" => Len(spawned) = Len(l)
            /\ pc = "loop" => Len(spawned) + Len(selected_checkers) = Len(l)

C2_Witness ==
    /\ pc = "done"
    /\ GivenProgs(<< <<"p","e","p","8">>, <<"p","y","l","i","n","t">> >>)
    /\ Len(filenames) = 2
    /\ Len(spawned) = 2
    /\ spawned[1][1] = <<"p","e","p","8",".","p","y">>
    /\ spawned[2][1] = <<"p","y","l","i","n","t">>

\* the codes of codes are all items of the comma-separated value of the
\* element of args that begins with flag
FlagEmbeds(args, flag, codes) ==
    \E k \in 2..Len(args) :
        /\ StartsWith(args[k], flag)
        /\ codes \subseteq Range(Split(Drop(args[k], Len(flag))))

OperativeCodes(l, cls) == Range(l) \cup SaneDefaults(cls)

\* C3, as stated: in the argument vector of every adapter, pyflakes
\* included, every code of operative_ignore_codes is an item of the value of
\* some flag.
C3_AllAdaptersPassCodes ==
    \A l \in IgnoreLists : GivenCodes(l) =>
        \A i \in DOMAIN spawned : \E cls \in Classes :
            /\ spawned[i][1] = command(cls)
            /\ \A c \in OperativeCodes(l, cls) :
                  \E k \in 2..(Len(spawned[i]) - Len(filenames)) :
                      \E e \in 1..Len(spawned[i][k]) :
                          /\ spawned[i][k][1] = "-"
                          /\ spawned[i][k][e] = "="
                          /\ c \in Range(Split(Drop(spawned[i][k], e)))

\* C3, amended: the argument vector of pylint has --disable=<codes> and that
\* of pep8.py has --ignore=<codes>, the codes being every code of
\* operative_ignore_codes (the -i codes and the sane defaults); the argument
\* vector of pyflakes is the command and the file names, with no flag.
C3_PylintAndPep8PassCodes ==
    \A l \in IgnoreLists : GivenCodes(l) =>
        \A i \in DOMAIN spawned :
            LET args == spawned[i]
            IN  /\ args[1] = <<"p","y","l","i","n","t">> =>
                      FlagEmbeds(args, <<"-","-","d","i","s","a","b","l","e","=">>, OperativeCodes(l, "PylintRunner"))
                /\ args[1] = <<"p","e","p","8",".","p","y">> =>
                      FlagEmbeds(args, <<"-","-","i","g","n","o","r","e","=">>, OperativeCodes(l, "Pep8Runner"))
                /\ args[1] = <<"p","y","f","l","a","k","e","s">> => args = << <<"p","y","f","l","a","k","e","s">> >> \o filenames
                /\ args[1] \in {<<"p","y","l","i","n","t">>, <<"p","e","p","8",".","p","y">>, <<"p","y","f","l","a","k","e","s">>}

C3_Witness ==
    /\ pc = "done"
    /\ GivenCodes(<< <<"E","5","0","1">>, <<"W","0","6","1","1">> >>)
    /\ Len(spawned) = 2
    /\ spawned[1][1] = <<"p","e","p","8",".","p","y">>
    /\ \E k \in DOMAIN spawned[1] :
          StartsWith(spawned[1][k], <<"-","-","i","g","n","o","r","e","=">>)
          /\ {<<"W","0","6","1","1">>, <<"E","5","0","1">>, <<"E","2","3","1">>} \subseteq Range(Split(Drop(spawned[1][k], 9)))
    /\ spawned[2] = << <<"p","y","f","l","a","k","e","s">>, <<"f","o","o",".","p","y">> >>

\* C9: when a name of the -p list is not in the registry, wherever it is in
\* the list, main ends with the lookup error and has spawned no process and
\* printed nothing.
C9_UnknownNameFailsFirst ==
    LET names == Split(Strip(options.checker_progs))
    IN  /\ (\E i \in DOMAIN names : names[i] \notin KnownProgs) =>
              /\ pc \in {"main", "keyerror"}
              /\ spawned = << >>
              /\ stdout = << >>
        /\ \A l \in ProgLists :
              (GivenProgs(l) /\ \E i \in DOMAIN l : l[i] \notin KnownProgs) =>
                  /\ pc \in {"main", "keyerror"}
                  /\ spawned = << >>
                  /\ stdout = << >>
        /\ pc = "keyerror" => \E i \in DOMAIN names : names[i] \notin KnownProgs

C9_Witness ==
    /\ pc = "keyerror"
    /\ GivenProgs(<< <<"p","y","l","i","n","t">>, <<"b","o","g","u","s">> >>)
    /\ options.debug
    /\ spawned = << >>
    /\ stdout = << >>

====
